---- MODULE Spec2Model ----
(***************************************************************************)
(* A model of mcp-apple-notes: the text chunker (chunkText), the note      *)
(* content decoder of AppleNotesDB (parseNoteContent, the readable-text    *)
(* extractor and its garbage-line scan), the timestamp conversion,         *)
(* getAllNotesWithContent, the configuration loader, indexNotes and the    *)
(* rank fusion of searchAndCombineResults, and the tool request handler of *)
(* the server with the notes table and the AppleNotesDB connections.       *)
(*                                                                         *)
(* A JavaScript string is a sequence of characters; a character is a       *)
(* one-element TLA+ string naming it ("a", " ", "x01" for U+0001, ...).    *)
(***************************************************************************)
EXTENDS Integers, Sequences, FiniteSets, TLC

VARIABLES
    \* chunkText (src/src/apple-notes-db.ts:265-320)
    text,           \* parameter text
    maxChunkSize,   \* options.maxChunkSize
    overlap,        \* options.overlap
    start,          \* local: the cursor
    end,            \* local: the end of the last window taken
    chunks,         \* local: the chunks emitted so far / the return value
    cpc,            \* position in chunkText: "idle", "call", "loop", "done"
    \* AppleNotesDB.parseNoteContent and extractTextFromProtobuf
    \* (src/src/apple-notes-db.ts:52-107)
    data,           \* parameter data: NullContent or a buffer
    lines,          \* extractTextFromProtobuf: the trimmed non-empty lines
    li,             \* the position of the line scan in lines
    goodLines,      \* local goodLines
    consecutiveGarbageCount,    \* local consecutiveGarbageCount
    content,        \* the string parseNoteContent returns
    threw,          \* TRUE when parseNoteContent ended by throwing
    scanError,      \* TRUE when an error was raised inside the line scan
    dpc,            \* position: "idle", "call", "scan", "join", "done"
    \* AppleNotesDB.getAllNotesWithContent (src/src/apple-notes-db.ts:189-217)
    rows,           \* local rows: what stmt.all() returned
    ri,             \* the position of rows.map in rows
    notes,          \* the array rows.map builds
    gpc,            \* position: "idle", "map", "done", "threw"
    \* loadConfig (src/src/text-chunker.test.ts:48-55) and indexNotes
    \* (src/index.ts:204-261)
    envChunkSize,       \* process.env.CHUNK_SIZE ("" when unset)
    envChunkOverlap,    \* process.env.CHUNK_OVERLAP ("" when unset)
    config,         \* the module constant config of index.ts
    allNotes,       \* local allNotesWithContent
    ni,             \* the position of the for loop in allNotes
    chunkIndex,     \* local chunkIndex
    records,        \* local chunks: the records to add
    table,          \* the rows of the notes table
    ipc,            \* position: "boot", "ready", "notes", "chunking", "done"
    \* AppleNotesDB.coreDataTimestampToDate (src/src/apple-notes-db.ts:41-46)
    timestamp,      \* parameter timestamp: null, undefined or a number
    date,           \* the time value of the Date returned
    tpc,            \* position: "idle", "call", "done"
    \* searchAndCombineResults (src/index.ts:431-476)
    limit,          \* parameter limit
    vectorAnswer,   \* what the table answers to the vector query
    ftsAnswer,      \* what the table answers to the full-text query
    settled,        \* the promises of Promise.all that have settled, in the
                    \* order they settled: [slot, value]
    scores,         \* local scores: the Map, as its entries in insertion order
    ranked,         \* the entries after the sort and the slice
    results,        \* the array returned
    spc,            \* position: "idle", "call", "pending", "done"
    \* the CallTool request handler (src/index.ts:333-416)
    noteStore,      \* the notes of Apple Notes, as indexNotes reads them
    tableExists,    \* TRUE when the database has a table "notes"
    tableRows,      \* the rows of the table "notes"
    calls,          \* the names of the tools called so far, in order
    tool,           \* per request: request.params.name
    rpc,            \* per request: the await the handler is at, or "idle",
                    \* "returned", "threw"
    pending,        \* per request: the local chunks of its indexNotes call
    opened,         \* per request: AppleNotesDB connections it has opened
    closed          \* per request: AppleNotesDB connections it has closed

chunkVars == <<text, maxChunkSize, overlap, start, end, chunks, cpc>>

decodeVars ==
    <<data, lines, li, goodLines, consecutiveGarbageCount, content, threw,
      scanError, dpc>>

storeVars == <<rows, ri, notes, gpc>>

indexVars ==
    <<envChunkSize, envChunkOverlap, config, allNotes, ni, chunkIndex, records,
      table, ipc>>

timeVars == <<timestamp, date, tpc>>

searchVars ==
    <<limit, vectorAnswer, ftsAnswer, settled, scores, ranked, results, spc>>

serverVars ==
    <<noteStore, tableExists, tableRows, calls, tool, rpc, pending, opened,
      closed>>

vars ==
    <<chunkVars, decodeVars, storeVars, indexVars, timeVars, searchVars,
      serverVars>>

(***************************************************************************)
(* Bounds of the model                                                     *)
(***************************************************************************)
MaxTextLen == 5      \* short texts have at most this many characters
MaxChunk == 3        \* small maxChunkSize values are 1..MaxChunk
MaxOverlap == 3      \* small overlap values are 0..MaxOverlap
MaxTailLen == 2      \* long texts end in a tail of at most this many characters
MaxBigDelta == 2     \* big maxChunkSize values are 200..200+MaxBigDelta
MaxEmitted == 8      \* the model stops a chunkText loop that emitted this many chunks
MaxPlainLen == 3     \* plain buffers have at most this many bytes
MaxPayloadLen == 4   \* payloads enumerated byte by byte have at most this many bytes
MaxLines == 5        \* payloads enumerated line by line have at most this many lines
MaxProse == 5        \* a prose run has at most this many lines
MaxShort == 4        \* a run of short lines has at most this many lines
MaxLongTail == 2     \* a long line has at most this many characters after its letters
MaxRows == 3         \* getAllNotesWithContent reads at most this many rows
MaxIndexRows == 2    \* indexNotes reads at most this many rows
MaxEnvDigits == 1    \* CHUNK_SIZE and CHUNK_OVERLAP have at most this many digits
MaxSeconds == 40     \* timestamps are within this many seconds of their base
MaxResults == 3      \* a query answers with at most this many rows
MaxLimit == 3        \* limit is 1..MaxLimit
MaxNotes == 2        \* Apple Notes holds at most this many notes
MaxCalls == 3        \* the server handles at most this many tool calls
MaxRequests == 2     \* at most this many requests are in the handler at once

(***************************************************************************)
(* Program constants                                                       *)
(***************************************************************************)
SentenceSearchWindow == 200

\* src/index.ts:453, const k = 60
RrfK == 60

(***************************************************************************)
(* Characters and JavaScript string primitives                             *)
(***************************************************************************)
\* What String.prototype.trim removes and what \s matches (the members of
\* the class that the model's alphabets use).
WhiteSpace == {" ", "\t", "\n", "\r", "x0B", "x0C", "u00A0"}

\* The class [.!?] of the sentence-end pattern.
SentenceTerminators == {".", "!", "?"}

MinOf(a, b) == IF a <= b THEN a ELSE b

MaxOf(a, b) == IF a >= b THEN a ELSE b

\* String.prototype.slice(a, b): a negative index counts from the end, both
\* are clamped to 0..length, and the result is empty when a >= b.
SliceIndex(s, i) == IF i < 0 THEN MaxOf(Len(s) + i, 0) ELSE MinOf(i, Len(s))

Slice(s, a, b) ==
    LET from == SliceIndex(s, a)
        to == SliceIndex(s, b)
    IN  IF from >= to THEN <<>> ELSE SubSeq(s, from + 1, to)

\* String.prototype.trim()
Trim(s) ==
    IF \A i \in 1..Len(s) : s[i] \in WhiteSpace
    THEN <<>>
    ELSE LET first == CHOOSE i \in 1..Len(s) :
                          /\ s[i] \notin WhiteSpace
                          /\ \A j \in 1..(i - 1) : s[j] \in WhiteSpace
             last == CHOOSE i \in 1..Len(s) :
                          /\ s[i] \notin WhiteSpace
                          /\ \A j \in (i + 1)..Len(s) : s[j] \in WhiteSpace
         IN  SubSeq(s, first, last)

\* searchText.search(/[.!?]\s/): the zero-based index of the first match, or -1
IsSentenceEndAt(s, i) ==
    s[i] \in SentenceTerminators /\ s[i + 1] \in WhiteSpace

SearchSentenceEnd(s) ==
    IF \E i \in 1..(Len(s) - 1) : IsSentenceEndAt(s, i)
    THEN (CHOOSE i \in 1..(Len(s) - 1) :
              /\ IsSentenceEndAt(s, i)
              /\ \A j \in 1..(i - 1) : ~IsSentenceEndAt(s, j)) - 1
    ELSE -1

(***************************************************************************)
(* chunkText                                                               *)
(***************************************************************************)
\* A plausible bug: the forward-progress check is missing.
AdvanceCursorNoGuard(st, e, ov) == e - ov

\* A plausible bug: the forward-progress check compares with < instead of <=.
AdvanceCursorOffByOne(st, e, ov) ==
    LET nextStart == e - ov
    IN  IF nextStart < st THEN e ELSE nextStart

\* A plausible bug: the overlap is added instead of subtracted.
AdvanceCursorPlusOverlap(st, e, ov) ==
    LET nextStart == e + ov
    IN  IF nextStart <= st THEN e ELSE nextStart

\* A plausible bug: the cursor moves to the window's end when the window is
\* shorter than the overlap, and stays when it is as long.
AdvanceCursorStrict(st, e, ov) ==
    LET nextStart == e - ov
    IN  IF nextStart < st THEN e ELSE IF nextStart = st THEN st + 1 ELSE nextStart

\* lines 303-311: the next cursor
AdvanceCursor(st, e, ov) ==
    LET nextStart == e - ov
    IN  IF nextStart <= st THEN e ELSE nextStart

\* A plausible bug: the window is widened by the overlap.
WindowEndWithOverlap(t, st, size, ov) ==
    MinOf(st + size + ov, Len(t))

\* line 283: the unshrunk end of the window
WindowEnd(t, st, size, ov) ==
    MinOf(st + size, Len(t))

\* A plausible bug: the window is never cut at a sentence boundary.
SentenceEndNoCut(t, st, end0) == end0

\* lines 285-296: the window's end after the sentence-boundary search
SentenceEnd(t, st, end0) ==
    IF end0 < Len(t)
    THEN LET searchStart == MaxOf(end0 - SentenceSearchWindow, st)
             searchText == Slice(t, searchStart, end0)
             sentenceEnd == SearchSentenceEnd(searchText)
         IN  IF sentenceEnd # -1 THEN searchStart + sentenceEnd + 2 ELSE end0
    ELSE end0

\* A plausible bug: the chunk is pushed without the emptiness check.
EmitChunkAlways(cs, chunk) == Append(cs, chunk)

\* lines 298-301: push the trimmed chunk unless it is empty
EmitChunk(cs, chunk) ==
    IF Len(chunk) > 0 THEN Append(cs, chunk) ELSE cs

\* lines 269-280: the early returns and the loop's initialisation
ChunkEnter ==
    /\ cpc = "call"
    /\ IF Len(text) = 0 \/ Len(Trim(text)) = 0
       THEN /\ chunks' = <<>>
            /\ cpc' = "done"
       ELSE IF Len(text) <= maxChunkSize
       THEN /\ chunks' = <<text>>
            /\ cpc' = "done"
       ELSE /\ chunks' = <<>>
            /\ cpc' = "loop"
    /\ start' = 0
    /\ end' = 0
    /\ UNCHANGED <<text, maxChunkSize, overlap>>
    /\ UNCHANGED <<decodeVars, storeVars, indexVars>>
    /\ UNCHANGED <<timeVars, searchVars, serverVars>>

\* lines 282-317: the loop condition and one iteration of the loop body
ChunkLoop ==
    /\ cpc = "loop"
    /\ Len(chunks) < MaxEmitted
    /\ IF start < Len(text)
       THEN \E e \in {SentenceEnd(text, start,
                                  WindowEnd(text, start, maxChunkSize, overlap))} :
            \E chunk \in {Trim(Slice(text, start, e))} :
                /\ end' = e
                /\ chunks' = EmitChunk(chunks, chunk)
                /\ start' = AdvanceCursor(start, e, overlap)
                /\ cpc' = IF e >= Len(text) THEN "done" ELSE "loop"
       ELSE /\ cpc' = "done"
            /\ UNCHANGED <<start, end, chunks>>
    /\ UNCHANGED <<text, maxChunkSize, overlap>>
    /\ UNCHANGED <<decodeVars, storeVars, indexVars>>
    /\ UNCHANGED <<timeVars, searchVars, serverVars>>

\* The texts chunkText is applied to.
TextAlphabet == {"a", ".", " "}

SeqsUpTo(S, n) == UNION {[1..k -> S] : k \in 0..n}

ShortTexts == SeqsUpTo(TextAlphabet, MaxTextLen)

Pad(n) == [i \in 1..n |-> "a"]

LongHeads == {<<>>, <<".", " ">>, <<"a", ".", " ">>}

LongTexts ==
    {h \o Pad(SentenceSearchWindow) \o tl :
        h \in LongHeads, tl \in SeqsUpTo(TextAlphabet, MaxTailLen)}

BigSizes == SentenceSearchWindow..(SentenceSearchWindow + MaxBigDelta)

(***************************************************************************)
(* AppleNotesDB.parseNoteContent, extractTextFromProtobuf, isGarbageLine   *)
(*                                                                         *)
(* A buffer is a sequence of bytes.  A byte is written as the character it *)
(* encodes; "xFF" is a byte that is no valid UTF-8, "x1F" "x8B" are the    *)
(* gzip magic bytes and "crc" stands for the trailer that ends a complete  *)
(* gzip stream.                                                            *)
(***************************************************************************)
\* The class [\x00-\x08\x0B\x0C\x0E-\x1F] of line 79.
ControlChars == {"x00", "x01", "x08", "x0B", "x0C", "x0E", "x1F"}

Digits == {"0", "1", "2", "3", "4", "5", "6", "7", "8", "9"}

\* The class [*JgG,\s\d\-\.] of line 117.
MarkerChars == {"*", "J", "g", "G", ",", "-", "."} \cup Digits \cup WhiteSpace

\* The characters that the class of line 120 keeps: printable ASCII and
\* U+00A0 (of the kept ranges, the characters the model's alphabets use).
\* Tab, CR, U+007F, U+4E2D and the control characters are not kept.
PrintableChars ==
    {"a", "b", "c", "d", "J", "g", "G", "*", ",", "-", ".", "!", "?", " ",
     "u00A0"} \cup Digits

\* buffer.toString("utf-8"): an undecodable byte becomes U+FFFD
BufferToString(buf) ==
    [i \in 1..Len(buf) |->
        IF buf[i] \in {"xFF", "x8B", "crc"} THEN "uFFFD" ELSE buf[i]]

\* A plausible bug: the class of control characters misses all but U+0000.
ReplaceOnlyNul(s) ==
    [i \in 1..Len(s) |-> IF s[i] = "x00" THEN "\n" ELSE s[i]]

\* line 79: every control character becomes a line break
ReplaceControlChars(s) ==
    [i \in 1..Len(s) |-> IF s[i] \in ControlChars THEN "\n" ELSE s[i]]

IsNotReplacementChar(c) == c # "uFFFD"

\* line 80
StripReplacementChars(s) == SelectSeq(s, IsNotReplacementChar)

\* line 81: split("\n")
RECURSIVE SplitOnNewline(_)
SplitOnNewline(s) ==
    IF \A i \in 1..Len(s) : s[i] # "\n"
    THEN <<s>>
    ELSE LET k == CHOOSE i \in 1..Len(s) :
                      s[i] = "\n" /\ \A j \in 1..(i - 1) : s[j] # "\n"
         IN  <<SubSeq(s, 1, k - 1)>> \o SplitOnNewline(SubSeq(s, k + 1, Len(s)))

IsNonEmpty(l) == Len(l) > 0

\* lines 76-83: the trimmed non-empty lines of the decoded buffer
ProtobufLines(buf) ==
    LET split == SplitOnNewline(
                     StripReplacementChars(ReplaceControlChars(BufferToString(buf))))
    IN  SelectSeq([i \in 1..Len(split) |-> Trim(split[i])], IsNonEmpty)

\* join("\n")
RECURSIVE JoinLines(_)
JoinLines(ls) ==
    IF Len(ls) = 0 THEN <<>>
    ELSE IF Len(ls) = 1 THEN ls[1]
    ELSE ls[1] \o <<"\n">> \o JoinLines(Tail(ls))

GarbageMinLength == 3
ShortLineLength == 10
ShortLineThresholdPct == 98
LongLineThresholdPct == 90
maxConsecutiveGarbage == 3

IsPrintableChar(c) == c \in PrintableChars

\* lines 112-124
isGarbageLine(line) ==
    IF Len(line) < GarbageMinLength THEN TRUE
    ELSE IF Len(line) > 0 /\ \A i \in 1..Len(line) : line[i] \in MarkerChars THEN TRUE
    ELSE LET cleanLine == SelectSeq(line, IsPrintableChar)
             threshold == IF Len(line) < ShortLineLength
                          THEN ShortLineThresholdPct ELSE LongLineThresholdPct
         IN  \* cleanLine.length / line.length < threshold, the thresholds 0.98
             \* and 0.90 in hundredths (9/10 and the literal 0.90 are the same
             \* double, so the quotient compares as the exact fraction does)
             Len(cleanLine) * 100 < threshold * Len(line)

\* A plausible bug: the scan does not stop at the third garbage line.
ScanStepNoBreak(good, count, line) ==
    IF isGarbageLine(line)
    THEN [good |-> good, count |-> count + 1, stop |-> FALSE]
    ELSE [good |-> Append(good, line), count |-> 0, stop |-> FALSE]

ScanStepNoReset(good, count, line) ==
    IF isGarbageLine(line)
    THEN [good |-> good, count |-> count + 1,
          stop |-> count + 1 >= maxConsecutiveGarbage]
    ELSE [good |-> Append(good, line), count |-> count, stop |-> FALSE]

\* lines 90-104: the body of the scan loop for one line; stop is the break
ScanStep(good, count, line) ==
    IF isGarbageLine(line)
    THEN [good |-> good, count |-> count + 1,
          stop |-> count + 1 >= maxConsecutiveGarbage]
    ELSE [good |-> Append(good, line), count |-> 0, stop |-> FALSE]

\* lines 86-104 as a function: the lines kept by the scan from line i on
RECURSIVE ScanFrom(_, _, _, _)
ScanFrom(ls, i, good, count) ==
    IF i > Len(ls) THEN good
    ELSE LET st == ScanStep(good, count, ls[i])
         IN  IF st.stop THEN st.good ELSE ScanFrom(ls, i + 1, st.good, st.count)

\* lines 75-107
extractTextFromProtobuf(buf) ==
    Trim(JoinLines(ScanFrom(ProtobufLines(buf), 1, <<>>, 0)))

\* The column ZDATA of a row: NULL, or a buffer.
NullContent == [present |-> FALSE, bytes |-> <<>>]

BufferOf(b) == [present |-> TRUE, bytes |-> b]

GzipMagic == <<"x1F", "x8B">>

\* line 60
HasGzipMagic(buf) == Len(buf) >= 2 /\ buf[1] = "x1F" /\ buf[2] = "x8B"

\* A gzip stream that pako can inflate to the end: the magic bytes, the
\* deflated payload and the trailer.
IsCompleteGzip(buf) ==
    /\ HasGzipMagic(buf)
    /\ Len(buf) >= 3
    /\ buf[Len(buf)] = "crc"
    /\ \A i \in 3..(Len(buf) - 1) : buf[i] # "crc"

\* line 61-62, pako.ungzip(buffer) and Buffer.from(decompressed): the inflated
\* bytes, or a throw.  On a damaged stream pako either throws or (a stream
\* that just ends early, with pako 2) returns undefined, which Buffer.from
\* rejects with a TypeError; the two builds fail alike.
Ungzip(buf) ==
    IF IsCompleteGzip(buf)
    THEN [threw |-> FALSE, bytes |-> SubSeq(buf, 3, Len(buf) - 1)]
    ELSE [threw |-> TRUE, bytes |-> <<>>]

\* A plausible bug: the try block has no catch, the exception propagates.
CatchNothing(r) == r

\* lines 65-68: the catch block turns a throw into the empty string
CatchDecodeError(r) ==
    IF r.threw THEN [threw |-> FALSE, val |-> <<>>] ELSE r

\* lines 52-69 as a function: [threw, val]
parseNoteContent(d) ==
    IF ~d.present THEN [threw |-> FALSE, val |-> <<>>]
    ELSE CatchDecodeError(
            IF HasGzipMagic(d.bytes)
            THEN LET z == Ungzip(d.bytes)
                 IN  IF z.threw THEN [threw |-> TRUE, val |-> <<>>]
                     ELSE [threw |-> FALSE, val |-> extractTextFromProtobuf(z.bytes)]
            ELSE [threw |-> FALSE, val |-> BufferToString(d.bytes)])

\* lines 52-83: parseNoteContent up to the line scan of the extractor
ParseEnter ==
    /\ dpc = "call"
    /\ IF ~data.present
       THEN /\ content' = <<>>
            /\ threw' = FALSE
            /\ dpc' = "done"
            /\ UNCHANGED lines
       ELSE IF HasGzipMagic(data.bytes)
       THEN \E z \in {Ungzip(data.bytes)} :
                IF z.threw
                THEN \E r \in {CatchDecodeError([threw |-> TRUE, val |-> <<>>])} :
                        /\ content' = r.val
                        /\ threw' = r.threw
                        /\ dpc' = "done"
                        /\ UNCHANGED lines
                ELSE /\ lines' = ProtobufLines(z.bytes)
                     /\ dpc' = "scan"
                     /\ UNCHANGED <<content, threw>>
       ELSE /\ content' = BufferToString(data.bytes)
            /\ threw' = FALSE
            /\ dpc' = "done"
            /\ UNCHANGED lines
    /\ li' = 1
    /\ goodLines' = <<>>
    /\ consecutiveGarbageCount' = 0
    /\ UNCHANGED <<data, scanError>>
    /\ UNCHANGED <<chunkVars, storeVars, indexVars>>
    /\ UNCHANGED <<timeVars, searchVars, serverVars>>

\* lines 90-104: the for loop takes the next line, or ends
ScanLine ==
    /\ dpc = "scan"
    /\ IF li <= Len(lines)
       THEN \E st \in {ScanStep(goodLines, consecutiveGarbageCount, lines[li])} :
                /\ goodLines' = st.good
                /\ consecutiveGarbageCount' = st.count
                /\ IF st.stop
                   THEN dpc' = "join" /\ li' = li
                   ELSE dpc' = "scan" /\ li' = li + 1
       ELSE /\ dpc' = "join"
            /\ UNCHANGED <<li, goodLines, consecutiveGarbageCount>>
    /\ UNCHANGED <<data, lines, content, threw, scanError>>
    /\ UNCHANGED <<chunkVars, storeVars, indexVars>>
    /\ UNCHANGED <<timeVars, searchVars, serverVars>>

\* line 106 and the return of line 62
ScanJoin ==
    /\ dpc = "join"
    /\ content' = Trim(JoinLines(goodLines))
    /\ threw' = FALSE
    /\ dpc' = "done"
    /\ UNCHANGED <<data, lines, li, goodLines, consecutiveGarbageCount,
                   scanError>>
    /\ UNCHANGED <<chunkVars, storeVars, indexVars>>
    /\ UNCHANGED <<timeVars, searchVars, serverVars>>


(***************************************************************************)
(* An error inside the line scan, and the fallback pass of the earlier     *)
(* extractor (src/unnamed/part_001:128-134)                                *)
(***************************************************************************)
\* part_001:132, replace(/[\x00-\x08\x0B\x0C\x0E-\x1F]/g, " ")
ReplaceControlWithSpace(s) ==
    [i \in 1..Len(s) |-> IF s[i] \in ControlChars THEN " " ELSE s[i]]

\* part_001:133, replace(/\s+/g, " "): every run of whitespace becomes a space
RECURSIVE CollapseWhitespace(_)
CollapseWhitespace(s) ==
    IF Len(s) = 0 THEN <<>>
    ELSE IF s[1] \notin WhiteSpace
    THEN <<s[1]>> \o CollapseWhitespace(Tail(s))
    ELSE IF Len(s) >= 2 /\ s[2] \in WhiteSpace
    THEN CollapseWhitespace(Tail(s))
    ELSE <<" ">> \o CollapseWhitespace(Tail(s))

\* part_001:128-134
extractTextFallback(buf) ==
    Trim(CollapseWhitespace(ReplaceControlWithSpace(BufferToString(buf))))

\* An error raised while the loop of lines 90-104 classifies a line.  Neither
\* the loop nor extractTextFromProtobuf has a try of its own, so the error
\* leaves the extractor and reaches the catch of parseNoteContent (lines
\* 65-68), which returns the empty string.
ScanRaise ==
    /\ dpc = "scan"
    /\ li <= Len(lines)
    /\ \E r \in {CatchDecodeError([threw |-> TRUE, val |-> <<>>])} :
        /\ content' = r.val
        /\ threw' = r.threw
    /\ scanError' = TRUE
    /\ dpc' = "done"
    /\ UNCHANGED <<data, lines, li, goodLines, consecutiveGarbageCount>>
    /\ UNCHANGED <<chunkVars, storeVars, indexVars>>
    /\ UNCHANGED <<timeVars, searchVars, serverVars>>
(***************************************************************************)
(* AppleNotesDB.getAllNotesWithContent                                     *)
(*                                                                         *)
(* A row is what the query of lines 190-204 yields for one note: id, title *)
(* (never NULL, by the WHERE clause) and content, the ZDATA column.  The   *)
(* other columns are copied to the record and decide nothing here.         *)
(***************************************************************************)
Untitled == <<"U", "n", "t", "i", "t", "l", "e", "d">>

\* row.title || "Untitled"
TitleOf(row) == IF Len(row.title) = 0 THEN Untitled ELSE row.title

\* A plausible bug: a note whose content decoded to nothing is left out.
AppendNoteUnlessEmpty(acc, row, decoded) ==
    IF Len(decoded) = 0 THEN acc
    ELSE Append(acc, [id |-> row.id, title |-> TitleOf(row), content |-> decoded])

\* lines 207-216: the record rows.map makes of one row
AppendNote(acc, row, decoded) ==
    Append(acc, [id |-> row.id, title |-> TitleOf(row), content |-> decoded])

\* line 206: stmt.all()
GetAllQuery ==
    /\ gpc = "call"
    /\ gpc' = "map"
    /\ ri' = 1
    /\ notes' = <<>>
    /\ UNCHANGED rows
    /\ UNCHANGED <<chunkVars, decodeVars, indexVars>>
    /\ UNCHANGED <<timeVars, searchVars, serverVars>>

\* lines 207-216: rows.map takes the next row, or returns; a throw of
\* parseNoteContent would end the whole call
GetAllMapRow ==
    /\ gpc = "map"
    /\ IF ri <= Len(rows)
       THEN \E r \in {parseNoteContent(rows[ri].content)} :
                IF r.threw
                THEN /\ gpc' = "threw"
                     /\ UNCHANGED <<ri, notes>>
                ELSE /\ notes' = AppendNote(notes, rows[ri], r.val)
                     /\ ri' = ri + 1
                     /\ gpc' = "map"
       ELSE /\ gpc' = "done"
            /\ UNCHANGED <<ri, notes>>
    /\ UNCHANGED rows
    /\ UNCHANGED <<chunkVars, decodeVars, indexVars>>
    /\ UNCHANGED <<timeVars, searchVars, serverVars>>

\* lines 189-217 as a function: [threw, val]
RECURSIVE MapRowsFrom(_, _, _)
MapRowsFrom(rs, i, acc) ==
    IF i > Len(rs) THEN [threw |-> FALSE, val |-> acc]
    ELSE LET r == parseNoteContent(rs[i].content)
         IN  IF r.threw THEN [threw |-> TRUE, val |-> <<>>]
             ELSE MapRowsFrom(rs, i + 1, AppendNote(acc, rs[i], r.val))

getAllNotesWithContent(rs) == MapRowsFrom(rs, 1, <<>>)

(***************************************************************************)
(* loadConfig and indexNotes                                               *)
(***************************************************************************)
DefaultChunkSize == <<"1", "0", "0", "0">>

DefaultChunkOverlap == <<"1", "0", "0">>

DigitValue(c) ==
    CASE c = "0" -> 0 [] c = "1" -> 1 [] c = "2" -> 2 [] c = "3" -> 3
      [] c = "4" -> 4 [] c = "5" -> 5 [] c = "6" -> 6 [] c = "7" -> 7
      [] c = "8" -> 8 [] OTHER -> 9

\* parseInt of a string of decimal digits
RECURSIVE ParseInt(_)
ParseInt(s) ==
    IF Len(s) = 0 THEN 0
    ELSE 10 * ParseInt(SubSeq(s, 1, Len(s) - 1)) + DigitValue(s[Len(s)])

\* process.env.X || dflt: an unset or empty variable gives the default
EnvOr(v, dflt) == IF Len(v) = 0 THEN dflt ELSE v

\* src/src/text-chunker.test.ts:48-55
loadConfig(size, ovl) ==
    [chunkSize |-> ParseInt(EnvOr(size, DefaultChunkSize)),
     chunkOverlap |-> ParseInt(EnvOr(ovl, DefaultChunkOverlap))]

\* src/index.ts:24
LoadConfig ==
    /\ ipc = "boot"
    /\ config' = loadConfig(envChunkSize, envChunkOverlap)
    /\ ipc' = "ready"
    /\ UNCHANGED <<envChunkSize, envChunkOverlap, allNotes, ni, chunkIndex,
                   records, table>>
    /\ UNCHANGED <<chunkVars, decodeVars, storeVars>>
    /\ UNCHANGED <<timeVars, searchVars, serverVars>>

\* src/index.ts:208-221: read the notes, start the loop over them (every
\* title is non-empty after row.title || "Untitled", so the filter keeps all)
IndexBegin ==
    /\ ipc = "ready"
    /\ \E got \in {getAllNotesWithContent(rows)} :
        /\ ~got.threw
        /\ allNotes' = got.val
    /\ ni' = 1
    /\ chunkIndex' = 0
    /\ records' = <<>>
    /\ ipc' = "notes"
    /\ UNCHANGED <<envChunkSize, envChunkOverlap, config, table>>
    /\ UNCHANGED <<chunkVars, decodeVars, storeVars>>
    /\ UNCHANGED <<timeVars, searchVars, serverVars>>

\* src/index.ts:222-226: the call of chunkText for the next note
IndexCallChunk ==
    /\ ipc = "notes"
    /\ ni <= Len(allNotes)
    /\ text' = allNotes[ni].content
    /\ maxChunkSize' = config.chunkSize
    /\ overlap' = config.chunkOverlap
    /\ cpc' = "call"
    /\ UNCHANGED <<start, end, chunks>>
    /\ ipc' = "chunking"
    /\ UNCHANGED <<envChunkSize, envChunkOverlap, config, allNotes, ni,
                   chunkIndex, records, table>>
    /\ UNCHANGED <<decodeVars, storeVars>>
    /\ UNCHANGED <<timeVars, searchVars, serverVars>>

\* A plausible bug: a note without chunks gets no record.
RecordsOfNoFallback(note, contentChunks, firstId) ==
    [k \in 1..Len(contentChunks) |->
        [id |-> firstId + k - 1, title |-> note.title,
         content |-> contentChunks[k]]]

\* src/index.ts:228-248: the records of one note
RecordsOf(note, contentChunks, firstId) ==
    IF Len(contentChunks) = 0
    THEN <<[id |-> firstId, title |-> note.title, content |-> note.title]>>
    ELSE [k \in 1..Len(contentChunks) |->
            [id |-> firstId + k - 1, title |-> note.title,
             content |-> contentChunks[k]]]

\* src/index.ts:228-249: chunkText returned; push the note's records
IndexCollect ==
    /\ ipc = "chunking"
    /\ cpc = "done"
    /\ \E recs \in {RecordsOf(allNotes[ni], chunks, chunkIndex)} :
        /\ records' = records \o recs
        /\ chunkIndex' = chunkIndex + Len(recs)
    /\ ni' = ni + 1
    /\ cpc' = "idle"
    /\ ipc' = "notes"
    /\ UNCHANGED <<text, maxChunkSize, overlap, start, end, chunks>>
    /\ UNCHANGED <<envChunkSize, envChunkOverlap, config, allNotes, table>>
    /\ UNCHANGED <<decodeVars, storeVars>>
    /\ UNCHANGED <<timeVars, searchVars, serverVars>>

\* src/index.ts:251-257: notesTable.add(chunks)
IndexAdd ==
    /\ ipc = "notes"
    /\ ni > Len(allNotes)
    /\ table' = table \o records
    /\ ipc' = "done"
    /\ UNCHANGED <<envChunkSize, envChunkOverlap, config, allNotes, ni,
                   chunkIndex, records>>
    /\ UNCHANGED <<chunkVars, decodeVars, storeVars>>
    /\ UNCHANGED <<timeVars, searchVars, serverVars>>


(***************************************************************************)
(* coreDataTimestampToDate (src/src/apple-notes-db.ts:41-46)               *)
(*                                                                         *)
(* A time value, a count of milliseconds since 1970-01-01T00:00:00Z, is    *)
(* the record [seconds, millis] that stands for 1000 * seconds + millis,   *)
(* with millis in 0..999.                                                  *)
(***************************************************************************)
IsLeapYear(y) == (y % 4 = 0 /\ y % 100 # 0) \/ y % 400 = 0

DaysInYear(y) == IF IsLeapYear(y) THEN 366 ELSE 365

\* the month m is zero-based, as in Date.UTC
DaysInMonth(y, m) ==
    CASE m = 1 -> IF IsLeapYear(y) THEN 29 ELSE 28
      [] m \in {3, 5, 8, 10} -> 30
      [] OTHER -> 31

RECURSIVE DaysBeforeYear(_)
DaysBeforeYear(y) ==
    IF y <= 1970 THEN 0 ELSE DaysBeforeYear(y - 1) + DaysInYear(y - 1)

RECURSIVE DaysBeforeMonth(_, _)
DaysBeforeMonth(y, m) ==
    IF m <= 0 THEN 0 ELSE DaysBeforeMonth(y, m - 1) + DaysInMonth(y, m - 1)

\* Date.UTC(year, month, day, hours, minutes, seconds), year >= 1970
DateUTC(y, m, d, h, mi, s) ==
    [seconds |-> (DaysBeforeYear(y) + DaysBeforeMonth(y, m) + d - 1) * 86400
                    + h * 3600 + mi * 60 + s,
     millis |-> 0]

\* line 44
coreDataEpoch == DateUTC(2001, 0, 1, 0, 0, 0)

\* A plausible bug: the count of seconds is used as a count of milliseconds.
TimestampAsMillis(t) == [seconds |-> t \div 1000, millis |-> t % 1000]

\* line 45, timestamp * 1000
TimesThousand(t) == [seconds |-> t, millis |-> 0]

\* line 45, the sum of two counts of milliseconds
AddMillis(a, b) ==
    LET m == a.millis + b.millis
    IN  [seconds |-> a.seconds + b.seconds + (m \div 1000), millis |-> m % 1000]

\* line 42, !timestamp: null, undefined and 0 are falsy
IsFalsy(ts) == ts.kind \in {"null", "undefined"} \/ ts.value = 0

\* lines 41-46
coreDataTimestampToDate(ts) ==
    IF IsFalsy(ts) THEN [seconds |-> 0, millis |-> 0]
    ELSE AddMillis(coreDataEpoch, TimesThousand(ts.value))

ConvertTimestamp ==
    /\ tpc = "call"
    /\ date' = coreDataTimestampToDate(timestamp)
    /\ tpc' = "done"
    /\ UNCHANGED timestamp
    /\ UNCHANGED <<chunkVars, decodeVars, storeVars, indexVars, searchVars,
                   serverVars>>

(***************************************************************************)
(* searchAndCombineResults (src/index.ts:431-476)                          *)
(*                                                                         *)
(* A score is a sum of fractions 1 / (k + idx).  The model keeps it as the *)
(* whole number ScoreScale times the score, which is exact because         *)
(* ScoreScale is a multiple of every denominator; for lists of up to five  *)
(* rows the double arithmetic of the code orders and equates the sums as   *)
(* the exact fractions do.                                                 *)
(***************************************************************************)
RECURSIVE ProductFrom(_, _)
ProductFrom(a, n) == IF n = 0 THEN 1 ELSE a * ProductFrom(a + 1, n - 1)

ScoreScale == ProductFrom(RrfK, MaxResults + 1)

\* A plausible bug: the position is counted from one.
ScoreOneBased(startRank, idx) == ScoreScale \div (RrfK + startRank + idx + 1)

\* line 459, 1 / (k + startRank + idx)
Score(startRank, idx) == ScoreScale \div (RrfK + startRank + idx)

Separator == <<":", ":">>

\* line 458, `${result.title}::${result.content}`
KeyOf(result) == result.title \o Separator \o result.content

\* The Map scores is the sequence of its entries [key, score] in insertion
\* order.
MapHas(m, key) == \E i \in 1..Len(m) : m[i].key = key

\* line 460, scores.get(key) || 0
MapGetOrZero(m, key) ==
    IF MapHas(m, key)
    THEN m[CHOOSE i \in 1..Len(m) : m[i].key = key].score
    ELSE 0

\* scores.set(key, value): a key that is present keeps its place
MapSet(m, key, value) ==
    IF MapHas(m, key)
    THEN [i \in 1..Len(m) |->
            IF m[i].key = key THEN [key |-> key, score |-> value] ELSE m[i]]
    ELSE Append(m, [key |-> key, score |-> value])

\* line 460
Accumulate(m, key, score) == MapSet(m, key, MapGetOrZero(m, key) + score)

\* lines 456-462: results.forEach from the zero-based position idx on
RECURSIVE ProcessFrom(_, _, _, _)
ProcessFrom(m, res, startRank, idx) ==
    IF idx >= Len(res) THEN m
    ELSE ProcessFrom(Accumulate(m, KeyOf(res[idx + 1]), Score(startRank, idx)),
                     res, startRank, idx + 1)

processResults(m, res, startRank) == ProcessFrom(m, res, startRank, 0)

\* A plausible bug: an unstable sort, here one that puts an entry before the
\* entries of equal score.
InsertBeforeEqual(sorted, entry) ==
    LET n == Cardinality({i \in 1..Len(sorted) : sorted[i].score > entry.score})
    IN  SubSeq(sorted, 1, n) \o <<entry>> \o SubSeq(sorted, n + 1, Len(sorted))

\* Array.prototype.sort with (a, b) => b - a is stable: an entry goes after
\* the entries whose score is not lower.
InsertByScore(sorted, entry) ==
    LET n == Cardinality({i \in 1..Len(sorted) : sorted[i].score >= entry.score})
    IN  SubSeq(sorted, 1, n) \o <<entry>> \o SubSeq(sorted, n + 1, Len(sorted))

\* line 468, sort(([, a], [, b]) => b - a)
RECURSIVE SortByScoreDesc(_)
SortByScoreDesc(entries) ==
    IF Len(entries) = 0 THEN <<>>
    ELSE InsertByScore(SortByScoreDesc(SubSeq(entries, 1, Len(entries) - 1)),
                       entries[Len(entries)])

IsSeparatorAt(s, i) == i + 1 <= Len(s) /\ s[i] = ":" /\ s[i + 1] = ":"

\* line 471, key.split("::")
RECURSIVE SplitKey(_)
SplitKey(s) ==
    IF \E i \in 1..Len(s) : IsSeparatorAt(s, i)
    THEN LET i == CHOOSE i \in 1..Len(s) :
                    /\ IsSeparatorAt(s, i)
                    /\ \A j \in 1..(i - 1) : ~IsSeparatorAt(s, j)
         IN  <<SubSeq(s, 1, i - 1)>> \o SplitKey(SubSeq(s, i + 2, Len(s)))
    ELSE <<s>>

\* lines 470-473: const [title, content] = key.split("::"); a key always
\* holds the separator, so the split has two parts or more
Reconstruct(entry) ==
    LET parts == SplitKey(entry.key)
    IN  [title |-> parts[1], content |-> parts[2]]

\* A plausible bug: the values are taken in the order the promises settled.
ValuesInSettleOrder(done) == [i \in 1..Len(done) |-> done[i].value]

\* line 436, await Promise.all([...]): the values in the order of the
\* promises passed, whatever the order they settled in
PromiseAllValues(done) ==
    [slot \in 1..Len(done) |->
        done[CHOOSE i \in 1..Len(done) : done[i].slot = slot].value]

HasSettled(slot) == \E i \in 1..Len(settled) : settled[i].slot = slot

\* lines 436-451: both queries are issued before either is awaited
SearchIssue ==
    /\ spc = "call"
    /\ settled' = <<>>
    /\ spc' = "pending"
    /\ UNCHANGED <<limit, vectorAnswer, ftsAnswer, scores, ranked, results>>
    /\ UNCHANGED <<chunkVars, decodeVars, storeVars, indexVars, timeVars,
                   serverVars>>

\* lines 437-443: the vector query answers
VectorSettle ==
    /\ spc = "pending"
    /\ ~HasSettled(1)
    /\ settled' = Append(settled, [slot |-> 1, value |-> vectorAnswer])
    /\ UNCHANGED <<limit, vectorAnswer, ftsAnswer, scores, ranked, results, spc>>
    /\ UNCHANGED <<chunkVars, decodeVars, storeVars, indexVars, timeVars,
                   serverVars>>

\* lines 444-450: the full-text query answers
FtsSettle ==
    /\ spc = "pending"
    /\ ~HasSettled(2)
    /\ settled' = Append(settled, [slot |-> 2, value |-> ftsAnswer])
    /\ UNCHANGED <<limit, vectorAnswer, ftsAnswer, scores, ranked, results, spc>>
    /\ UNCHANGED <<chunkVars, decodeVars, storeVars, indexVars, timeVars,
                   serverVars>>

\* lines 436 and 453-475: Promise.all resolves, the lists are merged, sorted,
\* cut to limit and mapped back to pairs
SearchFuse ==
    /\ spc = "pending"
    /\ HasSettled(1)
    /\ HasSettled(2)
    /\ \E values \in {PromiseAllValues(settled)} :
        \E merged \in {processResults(processResults(<<>>, values[1], 0),
                                      values[2], 0)} :
            \E top \in {SubSeq(SortByScoreDesc(merged), 1,
                               MinOf(limit, Len(merged)))} :
                /\ scores' = merged
                /\ ranked' = top
                /\ results' = [i \in 1..Len(top) |-> Reconstruct(top[i])]
    /\ spc' = "done"
    /\ UNCHANGED <<limit, vectorAnswer, ftsAnswer, settled>>
    /\ UNCHANGED <<chunkVars, decodeVars, storeVars, indexVars, timeVars,
                   serverVars>>

(***************************************************************************)
(* The CallTool request handler, the notes table and the connections       *)
(***************************************************************************)
\* The requests the server can be handling at once.
Requests == 1..MaxRequests

\* The tool names of the handler's branches and a name it does not know.
Tools ==
    {"create-note", "list-notes", "get-note", "index-notes", "search-notes",
     "purge-index", "index-stats", "other"}

\* src/index.ts:222-249: the local chunks of indexNotes once the loop over
\* the notes with a title has ended; contentChunks stands for
\* chunkText(note.content, config)
RECURSIVE IndexFrom(_, _, _, _)
IndexFrom(ns, i, chunkIdx, acc) ==
    IF i > Len(ns) THEN acc
    ELSE LET recs == RecordsOf(ns[i], ns[i].contentChunks, chunkIdx)
         IN  IndexFrom(ns, i + 1, chunkIdx + Len(recs), acc \o recs)

indexPass(store) ==
    IndexFrom(SelectSeq(store, LAMBDA n : Len(n.title) > 0), 1, 0, <<>>)

\* A plausible bug: a table that exists counts as an index.
IsReadyWhenCreated(count) == count >= 0

\* src/index.ts:293, return count > 0
IsReady(count) == count > 0

\* src/index.ts:342-405: the await the branch of a tool starts with
FirstAwait(name) ==
    CASE name = "create-note" -> "runJxa"
      [] name = "list-notes" -> "getNotes"
      [] name = "get-note" -> "getNote"
      [] name = "index-notes" -> "indexNotes"
      [] name = "search-notes" -> "tableNames"
      [] name = "purge-index" -> "dropTable"
      [] name = "index-stats" -> "statsTableNames"
      [] OTHER -> "threw"

\* A request arrives and the handler is called with it (src/index.ts:333-335);
\* the model numbers the requests in the handler and gives a new one the
\* first free number.
Arrive(r, name) ==
    /\ rpc[r] = "idle"
    /\ \A q \in 1..(r - 1) : rpc[q] # "idle"
    /\ Len(calls) < MaxCalls
    /\ calls' = Append(calls, name)
    /\ tool' = [tool EXCEPT ![r] = name]
    /\ rpc' = [rpc EXCEPT ![r] = "createNotesTable"]
    /\ UNCHANGED <<noteStore, tableExists, tableRows, pending, opened, closed>>
    /\ UNCHANGED <<chunkVars, decodeVars, storeVars, indexVars, timeVars,
                   searchVars>>

\* One request after the other: the client waits for each answer.
ArriveInTurn(r) ==
    /\ \A q \in Requests : rpc[q] = "idle"
    /\ \E name \in Tools :
        /\ name = "create-note" => Len(noteStore) < MaxNotes
        /\ Arrive(r, name)

\* A search-notes request arrives while others may be in the handler.
ArriveSearch(r) == Arrive(r, "search-notes")

\* The handler has returned or thrown: the answer goes to the client and the
\* locals of the call are gone.
Respond(r) ==
    /\ rpc[r] \in {"returned", "threw"}
    /\ tool' = [tool EXCEPT ![r] = "none"]
    /\ rpc' = [rpc EXCEPT ![r] = "idle"]
    /\ pending' = [pending EXCEPT ![r] = <<>>]
    /\ opened' = [opened EXCEPT ![r] = 0]
    /\ closed' = [closed EXCEPT ![r] = 0]
    /\ UNCHANGED <<noteStore, tableExists, tableRows, calls>>
    /\ UNCHANGED <<chunkVars, decodeVars, storeVars, indexVars, timeVars,
                   searchVars>>

\* src/index.ts:334, 263-282: createEmptyTable with existOk keeps a table
\* that exists; then the branch of the tool starts
CreateNotesTable(r) ==
    /\ rpc[r] = "createNotesTable"
    /\ tableExists' = TRUE
    /\ rpc' = [rpc EXCEPT ![r] = FirstAwait(tool[r])]
    /\ UNCHANGED <<noteStore, tableRows, calls, tool, pending, opened, closed>>
    /\ UNCHANGED <<chunkVars, decodeVars, storeVars, indexVars, timeVars,
                   searchVars>>

\* The notes create-note can make.
NoteChoices ==
    {[title |-> <<"n">>, contentChunks |-> <<>>],
     [title |-> <<"m">>, contentChunks |-> << <<"p">>, <<"q">> >>]}

\* src/index.ts:338-341, 311-330: Notes makes the note, or the arguments
\* are rejected
CreateNote(r) ==
    /\ rpc[r] = "runJxa"
    /\ \E outcome \in {"created", "invalid"} :
        IF outcome = "created"
        THEN /\ \E note \in NoteChoices : noteStore' = Append(noteStore, note)
             /\ rpc' = [rpc EXCEPT ![r] = "returned"]
        ELSE /\ noteStore' = noteStore
             /\ rpc' = [rpc EXCEPT ![r] = "threw"]
    /\ UNCHANGED <<tableExists, tableRows, calls, tool, pending, opened,
                   closed>>
    /\ UNCHANGED <<chunkVars, decodeVars, storeVars, indexVars, timeVars,
                   searchVars>>

\* src/index.ts:342-346, 171-179: getNotes closes in finally
GetNotes(r) ==
    /\ rpc[r] = "getNotes"
    /\ \E outcome \in {"listed", "throws"} :
        rpc' = [rpc EXCEPT ![r] = IF outcome = "listed" THEN "returned"
                                  ELSE "threw"]
    /\ opened' = [opened EXCEPT ![r] = @ + 1]
    /\ closed' = [closed EXCEPT ![r] = @ + 1]
    /\ UNCHANGED <<noteStore, tableExists, tableRows, calls, tool, pending>>
    /\ UNCHANGED <<chunkVars, decodeVars, storeVars, indexVars, timeVars,
                   searchVars>>

\* src/index.ts:347-355, 181-202: rejected arguments open nothing;
\* getNoteDetailsByTitle closes in finally; every error is caught at 353
GetNote(r) ==
    /\ rpc[r] = "getNote"
    /\ \E outcome \in {"invalid", "found", "throws"} :
        /\ opened' = [opened EXCEPT ![r] = IF outcome = "invalid" THEN @
                                            ELSE @ + 1]
        /\ closed' = [closed EXCEPT ![r] = IF outcome = "invalid" THEN @
                                            ELSE @ + 1]
    /\ rpc' = [rpc EXCEPT ![r] = "returned"]
    /\ UNCHANGED <<noteStore, tableExists, tableRows, calls, tool, pending>>
    /\ UNCHANGED <<chunkVars, decodeVars, storeVars, indexVars, timeVars,
                   searchVars>>

\* src/index.ts:204-251: indexNotes up to its await: open the store, read
\* the notes, build the chunks, call notesTable.add; a throw closes in finally
IndexNotes(r) ==
    /\ rpc[r] = "indexNotes"
    /\ opened' = [opened EXCEPT ![r] = @ + 1]
    /\ \E outcome \in {"read", "throws"} :
        IF outcome = "read"
        THEN /\ pending' = [pending EXCEPT ![r] = indexPass(noteStore)]
             /\ closed' = closed
             /\ rpc' = [rpc EXCEPT ![r] = "add"]
        ELSE /\ pending' = pending
             /\ closed' = [closed EXCEPT ![r] = @ + 1]
             /\ rpc' = [rpc EXCEPT ![r] = "threw"]
    /\ UNCHANGED <<noteStore, tableExists, tableRows, calls, tool>>
    /\ UNCHANGED <<chunkVars, decodeVars, storeVars, indexVars, timeVars,
                   searchVars>>

\* src/index.ts:251-260, 356-360, 363: notesTable.add appends the chunks to
\* the table, or rejects; indexNotes closes in finally
NotesTableAdd(r) ==
    /\ rpc[r] = "add"
    /\ \E outcome \in {"added", "throws"} :
        IF outcome = "added"
        THEN /\ tableRows' = tableRows \o pending[r]
             /\ rpc' = [rpc EXCEPT ![r] = IF tool[r] = "index-notes"
                                          THEN "returned" ELSE "query"]
        ELSE /\ tableRows' = tableRows
             /\ rpc' = [rpc EXCEPT ![r] = "threw"]
    /\ closed' = [closed EXCEPT ![r] = @ + 1]
    /\ UNCHANGED <<noteStore, tableExists, calls, tool, pending, opened>>
    /\ UNCHANGED <<chunkVars, decodeVars, storeVars, indexVars, timeVars,
                   searchVars>>

\* src/index.ts:363, 303-304, 287-290: isIndexReady asks for the table names
TableNames(r) ==
    /\ rpc[r] = "tableNames"
    /\ rpc' = [rpc EXCEPT ![r] = IF tableExists THEN "countRows"
                                 ELSE "createForIndex"]
    /\ UNCHANGED <<noteStore, tableExists, tableRows, calls, tool, pending,
                   opened, closed>>
    /\ UNCHANGED <<chunkVars, decodeVars, storeVars, indexVars, timeVars,
                   searchVars>>

\* src/index.ts:291-296, 304-305: isIndexReady counts the rows; an error
\* (the table is gone) counts as not ready
CountRows(r) ==
    /\ rpc[r] = "countRows"
    /\ rpc' = [rpc EXCEPT ![r] = IF tableExists /\ IsReady(Len(tableRows))
                                 THEN "query" ELSE "createForIndex"]
    /\ UNCHANGED <<noteStore, tableExists, tableRows, calls, tool, pending,
                   opened, closed>>
    /\ UNCHANGED <<chunkVars, decodeVars, storeVars, indexVars, timeVars,
                   searchVars>>

\* src/index.ts:306-307: ensureIndexed creates the table and calls indexNotes
CreateForIndex(r) ==
    /\ rpc[r] = "createForIndex"
    /\ tableExists' = TRUE
    /\ rpc' = [rpc EXCEPT ![r] = "indexNotes"]
    /\ UNCHANGED <<noteStore, tableRows, calls, tool, pending, opened, closed>>
    /\ UNCHANGED <<chunkVars, decodeVars, storeVars, indexVars, timeVars,
                   searchVars>>

\* src/index.ts:364-365, 436-451: the arguments are parsed, then
\* searchAndCombineResults issues the vector and the full-text query
IssueQueries(r) ==
    /\ rpc[r] = "query"
    /\ \E outcome \in {"issued", "invalid"} :
        rpc' = [rpc EXCEPT ![r] = IF outcome = "issued" THEN "searching"
                                  ELSE "threw"]
    /\ UNCHANGED <<noteStore, tableExists, tableRows, calls, tool, pending,
                   opened, closed>>
    /\ UNCHANGED <<chunkVars, decodeVars, storeVars, indexVars, timeVars,
                   searchVars>>

\* src/index.ts:365-366, 436-476: both queries answered, or one rejected
SearchSettle(r) ==
    /\ rpc[r] = "searching"
    /\ \E outcome \in {"answered", "throws"} :
        rpc' = [rpc EXCEPT ![r] = IF outcome = "answered" THEN "returned"
                                  ELSE "threw"]
    /\ UNCHANGED <<noteStore, tableExists, tableRows, calls, tool, pending,
                   opened, closed>>
    /\ UNCHANGED <<chunkVars, decodeVars, storeVars, indexVars, timeVars,
                   searchVars>>

\* src/index.ts:367-377: dropTable; its error is caught at 373
DropTable(r) ==
    /\ rpc[r] = "dropTable"
    /\ tableExists' = FALSE
    /\ tableRows' = <<>>
    /\ rpc' = [rpc EXCEPT ![r] = "returned"]
    /\ UNCHANGED <<noteStore, calls, tool, pending, opened, closed>>
    /\ UNCHANGED <<chunkVars, decodeVars, storeVars, indexVars, timeVars,
                   searchVars>>

\* src/index.ts:378-385: index-stats asks for the table names
StatsTableNames(r) ==
    /\ rpc[r] = "statsTableNames"
    /\ rpc' = [rpc EXCEPT ![r] = IF tableExists THEN "statsCountRows"
                                 ELSE "returned"]
    /\ UNCHANGED <<noteStore, tableExists, tableRows, calls, tool, pending,
                   opened, closed>>
    /\ UNCHANGED <<chunkVars, decodeVars, storeVars, indexVars, timeVars,
                   searchVars>>

\* src/index.ts:386-402: the rows are counted, then the store is opened,
\* listNotes is called and the store is closed at 390; an error of listNotes
\* goes to the catch at 400, past the close
StatsCountRows(r) ==
    /\ rpc[r] = "statsCountRows"
    /\ opened' = [opened EXCEPT ![r] = @ + 1]
    /\ \E outcome \in {"listed", "throws"} :
        closed' = [closed EXCEPT ![r] = IF outcome = "listed" THEN @ + 1
                                        ELSE @]
    /\ rpc' = [rpc EXCEPT ![r] = "returned"]
    /\ UNCHANGED <<noteStore, tableExists, tableRows, calls, tool, pending>>
    /\ UNCHANGED <<chunkVars, decodeVars, storeVars, indexVars, timeVars,
                   searchVars>>
(***************************************************************************)
(* The inputs and the specifications                                       *)
(***************************************************************************)
ChunkIdle ==
    /\ text = <<>>
    /\ maxChunkSize = 0
    /\ overlap = 0
    /\ start = 0
    /\ end = 0
    /\ chunks = <<>>
    /\ cpc = "idle"

DecodeIdle ==
    /\ data = NullContent
    /\ lines = <<>>
    /\ li = 1
    /\ goodLines = <<>>
    /\ consecutiveGarbageCount = 0
    /\ content = <<>>
    /\ threw = FALSE
    /\ scanError = FALSE
    /\ dpc = "idle"

StoreIdle ==
    /\ rows = <<>>
    /\ ri = 1
    /\ notes = <<>>
    /\ gpc = "idle"

TimeIdle ==
    /\ timestamp = [kind |-> "null", value |-> 0]
    /\ date = [seconds |-> 0, millis |-> 0]
    /\ tpc = "idle"

SearchIdle ==
    /\ limit = 0
    /\ vectorAnswer = <<>>
    /\ ftsAnswer = <<>>
    /\ settled = <<>>
    /\ scores = <<>>
    /\ ranked = <<>>
    /\ results = <<>>
    /\ spc = "idle"

IndexIdle ==
    /\ envChunkSize = <<>>
    /\ envChunkOverlap = <<>>
    /\ config = [chunkSize |-> 0, chunkOverlap |-> 0]
    /\ allNotes = <<>>
    /\ ni = 1
    /\ chunkIndex = 0
    /\ records = <<>>
    /\ table = <<>>
    /\ ipc = "idle"

ServerIdle ==
    /\ noteStore = <<>>
    /\ tableExists = FALSE
    /\ tableRows = <<>>
    /\ calls = <<>>
    /\ tool = [r \in Requests |-> "none"]
    /\ rpc = [r \in Requests |-> "idle"]
    /\ pending = [r \in Requests |-> <<>>]
    /\ opened = [r \in Requests |-> 0]
    /\ closed = [r \in Requests |-> 0]

ChunkInit ==
    /\ \/ /\ text \in ShortTexts
          /\ maxChunkSize \in 1..MaxChunk
          /\ overlap \in 0..MaxOverlap
       \/ /\ text \in LongTexts
          /\ maxChunkSize \in BigSizes
          /\ overlap \in {0, 1, SentenceSearchWindow}
    /\ start = 0
    /\ end = 0
    /\ chunks = <<>>
    /\ cpc = "call"
    /\ DecodeIdle
    /\ StoreIdle
    /\ IndexIdle
    /\ TimeIdle
    /\ SearchIdle
    /\ ServerIdle

ChunkNext == ChunkEnter \/ ChunkLoop

ChunkSpec == ChunkInit /\ [][ChunkNext]_vars

\* chunkText runs to completion once called: there is nothing to wait for.
ChunkLive == ChunkInit /\ [][ChunkNext]_vars /\ WF_vars(ChunkNext)

\* The payloads of the gzip streams.
PlainAlphabet == {"a", " ", "x01", "xFF"}

PayloadAlphabet == {"a", " ", "\n", "x01", "xFF"}

DigitChar(i) == CASE i = 0 -> "0" [] i = 1 -> "1" [] i = 2 -> "2" [] OTHER -> "3"

\* a line of prose and a line under three characters, told apart by i
ProseLine(i) == <<"a", "b", "c", DigitChar(i % 4)>>

ShortLine(i) == <<"d", DigitChar(i % 4)>>

ProseRun(m) == [i \in 1..m |-> ProseLine(i)]

ShortRun(n) == [i \in 1..n |-> ShortLine(i)]

LineSamples ==
    { <<"a", "b", "c">>,            \* prose
      <<"a", "b">>,                 \* under three characters
      <<"*", "1", "-">>,            \* marker characters only
      <<"a", "u4E2D", "b", "c">> }  \* three of four characters printable

LongLineAlphabet == {"a", "x01", "u4E2D", "x7F"}

\* one letter short of the length at which the long-line threshold applies
LongLinePrefix == Pad(ShortLineLength - 1)

Payloads ==
    SeqsUpTo(PayloadAlphabet, MaxPayloadLen)
    \cup {JoinLines(ls) : ls \in SeqsUpTo(LineSamples, MaxLines)}
    \cup {JoinLines(ProseRun(m) \o ShortRun(n)) \o tl :
            m \in 0..MaxProse, n \in 0..MaxShort,
            tl \in {<<>>, <<"\n">> \o ProseLine(0)}}
    \cup {LongLinePrefix \o tl : tl \in SeqsUpTo(LongLineAlphabet, MaxLongTail)}

RawContents ==
    {NullContent}
    \cup {BufferOf(b) : b \in SeqsUpTo(PlainAlphabet, MaxPlainLen)}
    \cup {BufferOf(<<"x1F">> \o b) : b \in SeqsUpTo(PlainAlphabet, 1)}
    \cup {BufferOf(GzipMagic \o p \o <<"crc">>) : p \in Payloads}
    \cup {BufferOf(GzipMagic \o p) : p \in SeqsUpTo(PayloadAlphabet, MaxPlainLen)}

DecodeInit ==
    /\ data \in RawContents
    /\ lines = <<>>
    /\ li = 1
    /\ goodLines = <<>>
    /\ consecutiveGarbageCount = 0
    /\ content = <<>>
    /\ threw = FALSE
    /\ scanError = FALSE
    /\ dpc = "call"
    /\ ChunkIdle
    /\ StoreIdle
    /\ IndexIdle
    /\ TimeIdle
    /\ SearchIdle
    /\ ServerIdle

DecodeNext == ParseEnter \/ ScanLine \/ ScanJoin

DecodeSpec == DecodeInit /\ [][DecodeNext]_vars

\* The rows of the note store.
RowContents ==
    { NullContent,
      BufferOf(<<"a", " ">>),
      BufferOf(GzipMagic \o <<"a", "b", "c">> \o <<"crc">>),
      BufferOf(GzipMagic \o <<"*", "x01", "*">> \o <<"crc">>),
      BufferOf(GzipMagic \o <<"a", "b", "c">>) }

RowTitles == {<<>>, <<"T">>}

RowsUpTo(n, contents) ==
    UNION {{[i \in 1..k |-> [id |-> i, title |-> f[i][1], content |-> f[i][2]]] :
                f \in [1..k -> RowTitles \X contents]} : k \in 0..n}

StoreInit ==
    /\ rows \in RowsUpTo(MaxRows, RowContents)
    /\ ri = 1
    /\ notes = <<>>
    /\ gpc = "call"
    /\ ChunkIdle
    /\ DecodeIdle
    /\ IndexIdle
    /\ TimeIdle
    /\ SearchIdle
    /\ ServerIdle

StoreNext == GetAllQuery \/ GetAllMapRow

StoreSpec == StoreInit /\ [][StoreNext]_vars

IndexRowContents ==
    { NullContent,
      BufferOf(<<"a", ".", " ", "b">>),
      BufferOf(GzipMagic \o <<"a", "b", " ", "c", "d", ".">> \o <<"crc">>),
      BufferOf(GzipMagic \o <<"a", "b", "c">>) }

EnvDigits == {"0", "1", "2"}

EnvValues == SeqsUpTo(EnvDigits, MaxEnvDigits)

IndexInit ==
    /\ envChunkSize \in EnvValues
    /\ envChunkOverlap \in EnvValues
    /\ rows \in RowsUpTo(MaxIndexRows, IndexRowContents)
    /\ ri = 1
    /\ notes = <<>>
    /\ gpc = "idle"
    /\ config = [chunkSize |-> 0, chunkOverlap |-> 0]
    /\ allNotes = <<>>
    /\ ni = 1
    /\ chunkIndex = 0
    /\ records = <<>>
    /\ table = <<>>
    /\ ipc = "boot"
    /\ ChunkIdle
    /\ DecodeIdle
    /\ TimeIdle
    /\ SearchIdle
    /\ ServerIdle

IndexNext ==
    \/ LoadConfig
    \/ IndexBegin
    \/ IndexCallChunk
    \/ ChunkEnter
    \/ ChunkLoop
    \/ IndexCollect
    \/ IndexAdd

IndexSpec == IndexInit /\ [][IndexNext]_vars


\* The decoder when the line scan may raise an error at any line.
FaultNext == DecodeNext \/ ScanRaise

FaultSpec == DecodeInit /\ [][FaultNext]_vars

\* The timestamps: null, undefined, the counts of seconds around zero and
\* the counts from 694224000 on (the first second of 2023).
NumberOf(n) == [kind |-> "number", value |-> n]

TimestampInputs ==
    {[kind |-> "null", value |-> 0], [kind |-> "undefined", value |-> 0]}
    \cup {NumberOf(n) : n \in (0 - MaxSeconds)..MaxSeconds}
    \cup {NumberOf(694224000 + n) : n \in 0..MaxSeconds}

DateInit ==
    /\ timestamp \in TimestampInputs
    /\ date = [seconds |-> 0, millis |-> 0]
    /\ tpc = "call"
    /\ ChunkIdle
    /\ DecodeIdle
    /\ StoreIdle
    /\ IndexIdle
    /\ SearchIdle
    /\ ServerIdle

DateNext == ConvertTimestamp

DateSpec == DateInit /\ [][DateNext]_vars

\* The rows a query can answer with: a title and a content, with and without
\* the characters "::" in them.
SearchTitles == {<<"b">>, <<"b", ":", ":", "a">>}

SearchContents == {<<"c">>, <<"a", ":", ":", "c">>}

SearchItems ==
    {[title |-> t, content |-> c] : t \in SearchTitles, c \in SearchContents}

SearchInit ==
    /\ limit \in 1..MaxLimit
    /\ vectorAnswer \in SeqsUpTo(SearchItems, MinOf(limit, MaxResults))
    /\ ftsAnswer \in SeqsUpTo(SearchItems, MinOf(limit, MaxResults))
    /\ settled = <<>>
    /\ scores = <<>>
    /\ ranked = <<>>
    /\ results = <<>>
    /\ spc = "call"
    /\ ChunkIdle
    /\ DecodeIdle
    /\ StoreIdle
    /\ IndexIdle
    /\ TimeIdle
    /\ ServerIdle

SearchNext == SearchIssue \/ VectorSettle \/ FtsSettle \/ SearchFuse

SearchSpec == SearchInit /\ [][SearchNext]_vars

(***************************************************************************)
(* The server: a fresh data directory, tool calls one after the other      *)
(* (ServerSpec) or search-notes requests that overlap (ConcurrentSpec)      *)
(***************************************************************************)
ServerInit ==
    /\ noteStore \in SeqsUpTo(NoteChoices, MaxNotes)
    /\ tableExists = FALSE
    /\ tableRows = <<>>
    /\ calls = <<>>
    /\ tool = [r \in Requests |-> "none"]
    /\ rpc = [r \in Requests |-> "idle"]
    /\ pending = [r \in Requests |-> <<>>]
    /\ opened = [r \in Requests |-> 0]
    /\ closed = [r \in Requests |-> 0]
    /\ ChunkIdle
    /\ DecodeIdle
    /\ StoreIdle
    /\ IndexIdle
    /\ TimeIdle
    /\ SearchIdle

SearchRequestNext(r) ==
    \/ CreateNotesTable(r)
    \/ TableNames(r)
    \/ CountRows(r)
    \/ CreateForIndex(r)
    \/ IndexNotes(r)
    \/ NotesTableAdd(r)
    \/ IssueQueries(r)
    \/ SearchSettle(r)
    \/ Respond(r)

ServerNext ==
    \E r \in Requests :
        \/ ArriveInTurn(r)
        \/ SearchRequestNext(r)
        \/ CreateNote(r)
        \/ GetNotes(r)
        \/ GetNote(r)
        \/ DropTable(r)
        \/ StatsTableNames(r)
        \/ StatsCountRows(r)

ServerSpec == ServerInit /\ [][ServerNext]_vars

ConcurrentNext ==
    \E r \in Requests :
        \/ ArriveSearch(r)
        \/ SearchRequestNext(r)

ConcurrentSpec == ServerInit /\ [][ConcurrentNext]_vars
(***************************************************************************)
(* Claims about chunkText                                                  *)
(***************************************************************************)

\* C1: in chunkText the cursor start is strictly greater after every loop
\* iteration than before it, whatever the overlap (overlap >= maxChunkSize
\* included).
C1_CursorStrictlyIncreases ==
    [][cpc = "loop" => start' > start]_vars

C1_Witness ==
    /\ overlap >= maxChunkSize
    /\ cpc = "loop"
    /\ start > 0
    /\ Len(chunks) >= 2

\* C2: for a valid configuration (0 <= overlap < maxChunkSize) chunkText
\* terminates, and when it looped the last window ends at the end of the text.
C2_Terminates ==
    (overlap < maxChunkSize) =>
        <>(cpc = "done" /\ (start > 0 => end = Len(text)))

C2_Witness ==
    /\ overlap < maxChunkSize
    /\ overlap > 0
    /\ cpc = "done"
    /\ Len(chunks) >= 3
    /\ end = Len(text)

\* C3: with 0 <= overlap < maxChunkSize every chunk has at most maxChunkSize
\* characters.
C3_ChunkLengthBounded ==
    (overlap < maxChunkSize) =>
        \A i \in 1..Len(chunks) : Len(chunks[i]) <= maxChunkSize

C3_Witness ==
    /\ 0 < overlap
    /\ overlap < maxChunkSize
    /\ cpc = "done"
    /\ \E i \in 1..Len(chunks) : Len(chunks[i]) = maxChunkSize
    /\ Len(chunks) >= 2

\* C4: a text with a non-whitespace character and at most maxChunkSize
\* characters is returned as exactly one element, the trimmed text.
C4_ShortTextTrimmed ==
    (cpc = "done" /\ Len(Trim(text)) > 0 /\ Len(text) <= maxChunkSize) =>
        chunks = <<Trim(text)>>

\* C5: every element returned has a non-whitespace character, so an empty or
\* all-whitespace text gives the empty sequence.
C5_ChunksNonBlank ==
    /\ \A i \in 1..Len(chunks) : Len(Trim(chunks[i])) > 0
    /\ (cpc = "done" /\ Len(Trim(text)) = 0) => chunks = <<>>

\* every window is one character, one of them is a blank and was not emitted
C5_Witness ==
    /\ cpc = "done"
    /\ maxChunkSize = 1
    /\ overlap = 0
    /\ Len(text) > maxChunkSize
    /\ \E i \in 1..Len(text) : text[i] = " "
    /\ Len(chunks) >= 2

(***************************************************************************)
(* Claims about the decoder                                                *)
(***************************************************************************)
IsTrimmed(s) == Trim(s) = s

HasNoControlChar(s) == \A i \in 1..Len(s) : s[i] \notin ControlChars

\* C7: parseNoteContent never throws; a buffer that begins with the gzip
\* magic bytes and cannot be inflated gives the empty string.
C7_ParseNeverThrows ==
    /\ ~threw
    /\ (dpc = "done" /\ data.present /\ HasGzipMagic(data.bytes)
            /\ ~IsCompleteGzip(data.bytes))
        => content = <<>>

C7_Witness ==
    /\ dpc = "done"
    /\ data.present
    /\ HasGzipMagic(data.bytes)
    /\ ~IsCompleteGzip(data.bytes)
    /\ Len(data.bytes) > 3

\* C9 as claimed: whatever the raw content, gzip or plain, the decoded text
\* has no control character and no leading or trailing whitespace.
C9_AllContentClean ==
    dpc = "done" => (HasNoControlChar(content) /\ IsTrimmed(content))

\* C9 as amended: the text decoded from absent or gzip-prefixed raw content
\* has no control character and no leading or trailing whitespace.
C9_GzipContentClean ==
    (dpc = "done" /\ (~data.present \/ HasGzipMagic(data.bytes)))
        => (HasNoControlChar(content) /\ IsTrimmed(content))

C9_Witness ==
    /\ dpc = "done"
    /\ data.present
    /\ IsCompleteGzip(data.bytes)
    /\ \E i \in 1..Len(data.bytes) : data.bytes[i] \in ControlChars
    /\ \E i \in 1..Len(data.bytes) : data.bytes[i] = " "
    /\ Len(content) > 0

\* C10: once three consecutive garbage lines have been seen the scan adds no
\* later line to the output; prose lines followed by three or more lines
\* under three characters give exactly the prose lines.
C10_NoLineAfterCutoff ==
    /\ [][consecutiveGarbageCount >= maxConsecutiveGarbage
            => goodLines' = goodLines]_vars
    /\ [](dpc = "done" =>
            \A m \in 0..MaxProse, n \in maxConsecutiveGarbage..MaxShort :
                lines = ProseRun(m) \o ShortRun(n)
                    => content = JoinLines(ProseRun(m)))

C10_Witness ==
    /\ dpc = "done"
    /\ consecutiveGarbageCount >= maxConsecutiveGarbage
    /\ \E j \in (li + 1)..Len(lines) : ~isGarbageLine(lines[j])
    /\ Len(goodLines) > 0

(***************************************************************************)
(* Claims about getAllNotesWithContent and the configuration               *)
(***************************************************************************)
IsDamagedGzip(d) ==
    d.present /\ HasGzipMagic(d.bytes) /\ ~IsCompleteGzip(d.bytes)

\* C8: failure isolation is per note: a row whose content cannot be decoded
\* gets empty content and the result has exactly one record per row, in row
\* order.
C8_OneRecordPerRow ==
    /\ gpc # "threw"
    /\ gpc = "map" => Len(notes) = ri - 1
    /\ gpc = "done" => Len(notes) = Len(rows)
    /\ \A i \in 1..Len(notes) :
        /\ notes[i].id = rows[i].id
        /\ IsDamagedGzip(rows[i].content) => notes[i].content = <<>>

C8_Witness ==
    /\ gpc = "done"
    /\ Len(rows) = MaxRows
    /\ IsDamagedGzip(rows[1].content)
    /\ Len(notes[2].content) > 0
    /\ IsDamagedGzip(rows[3].content)

\* C6: a configuration whose overlap is >= its chunk size is rejected when
\* it is loaded, so chunkText is never called with overlap >= maxChunkSize.
C6_BadOverlapRejected ==
    /\ ipc \notin {"idle", "boot"} => config.chunkOverlap < config.chunkSize
    /\ cpc # "idle" => overlap < maxChunkSize


(***************************************************************************)
(* The lines the extractor keeps                                           *)
(***************************************************************************)
\* The position of the third line of the first run of three garbage lines,
\* or one past the last line when there is no such run.
CutoffIndex(ls) ==
    LET hits == {i \in 3..Len(ls) :
                    \A j \in (i - 2)..i : isGarbageLine(ls[j])}
    IN  IF hits = {} THEN Len(ls) + 1
        ELSE CHOOSE i \in hits : \A j \in hits : i <= j

IsProseLine(line) == ~isGarbageLine(line)

LinesBeforeCutoff(ls) ==
    SelectSeq(SubSeq(ls, 1, CutoffIndex(ls) - 1), IsProseLine)

C12_FallbackOnScanError ==
    (dpc = "done" /\ scanError)
        => /\ ~threw
           /\ content = extractTextFallback(Ungzip(data.bytes).bytes)

(***************************************************************************)
(* The timestamp conversion                                                *)
(***************************************************************************)
\* C13: null, undefined and 0 give the Unix epoch; any other whole count of
\* seconds t gives 2001-01-01T00:00:00Z (978307200 seconds after the Unix
\* epoch) plus t seconds, so 694224000 gives 2023-01-01T00:00:00Z.
C13_TimestampToDate ==
    tpc = "done" =>
        /\ (timestamp.kind \in {"null", "undefined"} \/ timestamp.value = 0)
            => date = [seconds |-> 0, millis |-> 0]
        /\ (timestamp.kind = "number" /\ timestamp.value # 0)
            => date = [seconds |-> 978307200 + timestamp.value, millis |-> 0]
        /\ (timestamp.kind = "number" /\ timestamp.value = 694224000)
            => date = [seconds |-> 1672531200, millis |-> 0]

\* the representative offset of the spec has been converted
C13_Witness ==
    /\ tpc = "done"
    /\ timestamp = NumberOf(694224000)
    /\ date = [seconds |-> 1672531200, millis |-> 0]

(***************************************************************************)
(* The fusion of the two result lists                                      *)
(***************************************************************************)
AllAnswers == vectorAnswer \o ftsAnswer

AnswerKeys == {KeyOf(AllAnswers[i]) : i \in 1..Len(AllAnswers)}

\* the one-based positions of a key in a list
PositionsOf(list, key) == {i \in 1..Len(list) : KeyOf(list[i]) = key}

\* the sum of ScoreScale / (60 + idx) over the zero-based positions idx of
\* key in list, from the one-based position i on
RECURSIVE RankSumFrom(_, _, _)
RankSumFrom(list, key, i) ==
    IF i > Len(list) THEN 0
    ELSE (IF KeyOf(list[i]) = key THEN ScoreScale \div (60 + (i - 1)) ELSE 0)
         + RankSumFrom(list, key, i + 1)

RankSum(list, key) == RankSumFrom(list, key, 1)

\* C14: the map of scores has one entry for each key of the two lists, and
\* the score of a key is the sum over both lists of 1 / (60 + idx) for the
\* zero-based positions idx of the key.
C14_ScoreIsRankSum ==
    spc = "done" =>
        /\ {scores[i].key : i \in 1..Len(scores)} = AnswerKeys
        /\ \A i, j \in 1..Len(scores) : scores[i].key = scores[j].key => i = j
        /\ \A i \in 1..Len(scores) :
            scores[i].score = RankSum(vectorAnswer, scores[i].key)
                                + RankSum(ftsAnswer, scores[i].key)

\* the example of the spec, vector [A, B, C] and lexical [C, A, B]
C14_Witness ==
    /\ spc = "done"
    /\ Len(vectorAnswer) = 3
    /\ Len(ftsAnswer) = 3
    /\ Cardinality(AnswerKeys) = 3
    /\ Cardinality({KeyOf(vectorAnswer[i]) : i \in 1..3}) = 3
    /\ ftsAnswer[1] = vectorAnswer[3]
    /\ ftsAnswer[2] = vectorAnswer[1]
    /\ MapGetOrZero(scores, KeyOf(vectorAnswer[1]))
        = (ScoreScale \div 60) + (ScoreScale \div 61)
    /\ MapGetOrZero(scores, KeyOf(vectorAnswer[3]))
        = (ScoreScale \div 62) + (ScoreScale \div 60)

InBothLists(key) ==
    PositionsOf(vectorAnswer, key) # {} /\ PositionsOf(ftsAnswer, key) # {}

InOneListOnly(key) ==
    (PositionsOf(vectorAnswer, key) = {}) # (PositionsOf(ftsAnswer, key) = {})

SharesRank(a, b) ==
    (PositionsOf(vectorAnswer, a) \cup PositionsOf(ftsAnswer, a))
        \cap (PositionsOf(vectorAnswer, b) \cup PositionsOf(ftsAnswer, b)) # {}

\* C15: in the fused order a key found in both lists comes before every key
\* that has one of its ranks and is found in one list only.
C15_BothBeforeSingle ==
    spc = "done" =>
        \A i, j \in 1..Len(ranked) :
            (/\ InBothLists(ranked[i].key)
             /\ InOneListOnly(ranked[j].key)
             /\ SharesRank(ranked[i].key, ranked[j].key)) => i < j

\* C16: the list returned has at most limit elements, and no two of them are
\* the same (title, content) pair.
C16_DistinctUpToLimit ==
    spc = "done" =>
        /\ Len(results) <= limit
        /\ \A i, j \in 1..Len(results) : results[i] = results[j] => i = j

\* the position at which the merge first meets a key: the vector list in
\* its order, then the lexical list in its order
FirstSeen(key) ==
    CHOOSE i \in 1..Len(AllAnswers) :
        /\ KeyOf(AllAnswers[i]) = key
        /\ \A j \in 1..(i - 1) : KeyOf(AllAnswers[j]) # key

Precedes(a, b) ==
    \/ a.score > b.score
    \/ a.score = b.score /\ FirstSeen(a.key) < FirstSeen(b.key)

\* C17: the fused list is the first limit entries of the order by score
\* descending in which entries of equal score keep the order in which the
\* merge first met them.
C17_OrderedByScoreThenFirstSeen ==
    spc = "done" =>
        /\ Len(ranked) = MinOf(limit, Len(scores))
        /\ Len(results) = Len(ranked)
        /\ \A i, j \in 1..Len(ranked) : i < j => Precedes(ranked[i], ranked[j])
        /\ \A i \in 1..Len(ranked) : \A j \in 1..Len(scores) :
            \/ \E n \in 1..Len(ranked) : ranked[n] = scores[j]
            \/ Precedes(ranked[i], scores[j])

\* two keys of equal score are both in the fused list
C17_Witness ==
    /\ spc = "done"
    /\ \E i \in 1..(Len(ranked) - 1) :
        /\ ranked[i].score = ranked[i + 1].score
        /\ FirstSeen(ranked[i].key) < FirstSeen(ranked[i + 1].key)
    /\ Len(scores) > Len(ranked)

AnswerPairs ==
    {[title |-> AllAnswers[i].title, content |-> AllAnswers[i].content] :
        i \in 1..Len(AllAnswers)}

\* C18: every pair returned is the (title, content) pair of a row of one of
\* the two lists.
C18_PairsRoundTrip ==
    spc = "done" => \A i \in 1..Len(results) : results[i] \in AnswerPairs

\* C19: the list returned is the fusion of the vector answer and the lexical
\* answer, in that order, whichever of the two queries answered first.
C19_CompletionOrderIrrelevant ==
    spc = "done" =>
        /\ scores = processResults(processResults(<<>>, vectorAnswer, 0),
                                   ftsAnswer, 0)
        /\ ranked = SubSeq(SortByScoreDesc(scores), 1, MinOf(limit, Len(scores)))
        /\ results = [i \in 1..Len(ranked) |-> Reconstruct(ranked[i])]

\* the full-text query answered first, and the order of the two lists in the
\* merge decides the order of two keys of equal score
C19_Witness ==
    /\ spc = "done"
    /\ settled[1].slot = 2
    /\ Len(ranked) >= 2
    /\ ranked[1].score = ranked[2].score
    /\ KeyOf(vectorAnswer[1]) = ranked[1].key
    /\ KeyOf(ftsAnswer[1]) = ranked[2].key

\* C25: a key found in one list only has the score of one position:
\* 1 / (60 + idx) for some idx.
C25_SingleSourceSingleContribution ==
    spc = "done" =>
        \A i \in 1..Len(scores) :
            InOneListOnly(scores[i].key)
                => \E idx \in 0..MaxResults :
                        scores[i].score = ScoreScale \div (60 + idx)

\* C30: rows with different (title, content) pairs have different keys, so
\* the map of scores has one entry for each pair of the two lists.
C30_KeyInjective ==
    spc = "done" =>
        /\ \A i, j \in 1..Len(AllAnswers) :
                KeyOf(AllAnswers[i]) = KeyOf(AllAnswers[j])
                    => /\ AllAnswers[i].title = AllAnswers[j].title
                       /\ AllAnswers[i].content = AllAnswers[j].content
        /\ Len(scores) = Cardinality(AnswerPairs)

(***************************************************************************)
(* The records indexNotes emits                                            *)
(***************************************************************************)
\* C20: when indexNotes has chunked a note it appends, after the records it
\* already has, one record whose content is the note's title if the note's
\* raw content is absent or its text is empty or blank, and otherwise one
\* record per chunk in chunk order, at least one; so when indexNotes is
\* done there are at least as many records as notes, and they are the rows
\* added to the table.
C20_RecordsPerNote ==
    /\ [][(ipc = "chunking" /\ ipc' = "notes") =>
            LET note == allNotes[ni]
                new == SubSeq(records', Len(records) + 1, Len(records'))
            IN  /\ SubSeq(records', 1, Len(records)) = records
                /\ \A k \in 1..Len(new) : new[k].title = note.title
                /\ (~rows[ni].content.present \/ Len(Trim(note.content)) = 0)
                    => (Len(new) = 1 /\ new[1].content = note.title)
                /\ (Len(Trim(note.content)) > 0)
                    => /\ Len(new) = Len(chunks)
                       /\ Len(new) >= 1
                       /\ \A k \in 1..Len(new) : new[k].content = chunks[k]]_vars
    /\ [](ipc = "done" =>
            /\ Len(allNotes) = Len(rows)
            /\ Len(records) >= Len(allNotes)
            /\ table = records)

\* a note without raw content got the record of its title, and another note
\* got two records or more
C20_Witness ==
    /\ ipc = "done"
    /\ Len(rows) = 2
    /\ ~rows[1].content.present
    /\ records[1].content = allNotes[1].title
    /\ records[1].title = allNotes[1].title
    /\ Len(Trim(allNotes[2].content)) > 0
    /\ Len(records) >= 3

(***************************************************************************)
(* More claims about chunkText                                             *)
(***************************************************************************)
\* the end of the window at the cursor before the sentence search
UncutEnd == MinOf(start + maxChunkSize, Len(text))

\* the window at the cursor has, in its last 200 characters, a sentence
\* terminator followed by whitespace
HasSentenceBoundary ==
    \E i \in (MaxOf(UncutEnd - 200, start) + 1)..(UncutEnd - 1) :
        text[i] \in SentenceTerminators /\ text[i + 1] \in WhiteSpace

LastChunk(cs) == cs[Len(cs)]

\* C23: when the window at the cursor does not end at the end of the text
\* and its last 200 characters hold a terminator followed by whitespace, the
\* window taken ends no later, just after a terminator and the whitespace
\* character behind it, and a chunk ending with . ! or ? is emitted.
C23_CutAtSentenceBoundary ==
    [][(cpc = "loop" /\ start < Len(text) /\ UncutEnd < Len(text)
            /\ HasSentenceBoundary)
        => /\ end' <= UncutEnd
           /\ end' >= start + 2
           /\ text[end' - 1] \in SentenceTerminators
           /\ text[end'] \in WhiteSpace
           /\ Len(chunks') = Len(chunks) + 1
           /\ LastChunk(LastChunk(chunks')) \in SentenceTerminators]_vars

\* a window of a long text was cut well before its uncut end
C23_Witness ==
    /\ Len(text) > SentenceSearchWindow
    /\ cpc = "loop"
    /\ Len(chunks) = 1
    /\ end > 0
    /\ end < maxChunkSize
    /\ text[end - 1] \in SentenceTerminators
    /\ LastChunk(chunks[1]) \in SentenceTerminators

\* C24: after a window that does not reach the end of the text the cursor is
\* the window's end minus overlap, or the window's end when the window is no
\* longer than overlap; the next window ends no earlier than this one, so the
\* two share the overlap characters between the cursor and this window's end.
C24_NextCursor ==
    /\ [][(cpc = "loop" /\ cpc' = "loop")
            => start' = IF end' - start <= overlap THEN end' ELSE end' - overlap]_vars
    /\ [][(cpc = "loop" /\ start > 0 /\ start < Len(text))
            => /\ end - start \in {0, overlap}
               /\ end' >= end]_vars

\* two windows that share overlap > 0 characters were taken
C24_Witness ==
    /\ cpc = "loop"
    /\ overlap > 0
    /\ Len(chunks) >= 2
    /\ start = end - overlap

\* the part of s left when the whitespace at its two ends is removed starts
\* after a characters of s and ends after b
IsTrimOf(c, s) ==
    \E a \in 0..Len(s) : \E b \in a..Len(s) :
        /\ c = SubSeq(s, a + 1, b)
        /\ \A i \in 1..a : s[i] \in WhiteSpace
        /\ \A i \in (b + 1)..Len(s) : s[i] \in WhiteSpace
        /\ (a < b => s[a + 1] \notin WhiteSpace /\ s[b] \notin WhiteSpace)

\* C26: the first window starts at 0 and every window starts at or before
\* the end of the window before it; the chunk of a window is the window
\* without the whitespace at its ends, emitted unless empty; and the last
\* window ends at the end of the text.
C26_NoGap ==
    /\ [](cpc = "loop" => (start <= end /\ (end = 0 => start = 0)))
    /\ [][(cpc = "loop" /\ start < Len(text))
            => LET window == SubSeq(text, start + 1, end')
               IN  IF \A i \in 1..Len(window) : window[i] \in WhiteSpace
                   THEN chunks' = chunks
                   ELSE /\ Len(chunks') = Len(chunks) + 1
                        /\ SubSeq(chunks', 1, Len(chunks)) = chunks
                        /\ IsTrimOf(LastChunk(chunks'), window)]_vars
    /\ []((cpc = "done" /\ Len(text) > maxChunkSize /\ Len(Trim(text)) > 0)
            => end = Len(text))

\* a text with whitespace between its windows was chunked to its end
C26_Witness ==
    /\ cpc = "done"
    /\ Len(text) > maxChunkSize
    /\ overlap > 0
    /\ Len(chunks) >= 2
    /\ end = Len(text)
    /\ \E i \in 1..Len(text) : text[i] \in WhiteSpace

\* C27: with 0 <= overlap < maxChunkSize every window after the first ends
\* strictly later than the window before it.
C27_WindowEndIncreases ==
    [][(cpc = "loop" /\ overlap < maxChunkSize /\ start > 0 /\ start < Len(text))
        => end' > end]_vars

(***************************************************************************)
(* Claims about the tool request handler                                   *)
(***************************************************************************)
IsPrefix(p, s) == Len(p) <= Len(s) /\ SubSeq(s, 1, Len(p)) = p

\* The table starts with the rows of an indexing pass over the notes the
\* store held at some time (notes are only ever added, at the end).
HoldsIndexingPass ==
    /\ tableExists
    /\ \E k \in 1..Len(noteStore) :
            IsPrefix(indexPass(SubSeq(noteStore, 1, k)), tableRows)

\* C21: when index-notes completes on a table that was empty or held the
\* records of one indexing pass over the notes as they are, the table holds
\* the records of one indexing pass, each once.
C21_ReindexKeepsOnePass ==
    [][\A r \in Requests :
        (/\ tool[r] = "index-notes"
         /\ rpc[r] = "add"
         /\ rpc'[r] = "returned"
         /\ tableRows \in {<<>>, indexPass(noteStore)})
            => tableRows' = indexPass(noteStore)]_vars

\* C22: when a search-notes request issues its two queries and the store has
\* a note, the table exists and holds the records of an indexing pass,
\* whatever tools were called before.
C22_IndexedBeforeQueries ==
    [][\A r \in Requests :
        (/\ tool[r] = "search-notes"
         /\ rpc[r] = "query"
         /\ rpc'[r] = "searching"
         /\ Len(noteStore) >= 1)
            => HoldsIndexingPass]_vars

\* a search that issues its queries right after index-notes and purge-index
C22_Witness ==
    /\ calls = <<"index-notes", "purge-index", "search-notes">>
    /\ \E r \in Requests : tool[r] = "search-notes" /\ rpc[r] = "searching"
    /\ Len(noteStore) >= 1
    /\ tableRows = indexPass(noteStore)

\* C28: with search-notes requests only, overlapping in any way, the table
\* is empty or holds the records of one indexing pass, each once.
C28_AutoIndexOnce == tableRows \in {<<>>, indexPass(noteStore)}

\* C29: a handler that has returned or thrown has closed every AppleNotesDB
\* connection it opened.
C29_ConnectionsClosed ==
    \A r \in Requests : rpc[r] \in {"returned", "threw"} => closed[r] = opened[r]
====
